---- MODULE Spec2Model ----
(***************************************************************************)
(* Max -> Telegram bridge (src/max_to_tg.py).                              *)
(*                                                                         *)
(* One asyncio event loop runs three coroutines that share the module      *)
(* global ACTIVE_CHATS and the state file: the Telegram command handlers   *)
(* start_forwarding / stop_forwarding, and the Max message handler         *)
(* handle_max_message.  A step of the model is the code that runs between  *)
(* two awaits of one coroutine; the awaits are the only places where the   *)
(* coroutines interleave.                                                  *)
(***************************************************************************)
EXTENDS Integers, Sequences, FiniteSets, TLC

None == "None"

\* str(update.effective_chat.id) of the Telegram chats that may send commands.
ChatIds == {"111", "222", "333"}

-----------------------------------------------------------------------------
(* Errors.  str(e) is a sequence of code points, so that the lower() and   *)
(* the substring test of the dispatcher are computed, not assumed.  The     *)
(* texts are Latin-1 and Cyrillic: code points 0..255 and 1024..1119.       *)

\* str.lower() on one code point
Lower(c) ==
    CASE c \in 65..90 -> c + 32
      [] c \in 192..222 /\ c # 215 -> c + 32
      [] c \in 1024..1039 -> c + 80
      [] c \in 1040..1071 -> c + 32
      [] OTHER -> c

LowerAll(s) == [i \in 1..Len(s) |-> Lower(s[i])]

\* needle in haystack, both sequences
Contains(hay, needle) ==
    \E i \in 0..(Len(hay) - Len(needle)) :
        \A j \in 1..Len(needle) : hay[i + j] = needle[j]

Err(cls, desc) == [cls |-> cls, desc |-> desc]

\* "Chat not found"
ChatNotFoundText ==
    <<67, 104, 97, 116, 32, 110, 111, 116, 32, 102, 111, 117, 110, 100>>

\* "Forbidden: bot was blocked by the user"
BlockedText ==
    <<70, 111, 114, 98, 105, 100, 100, 101, 110, 58, 32, 98, 111, 116, 32,
    119, 97, 115, 32, 98, 108, 111, 99, 107, 101, 100, 32, 98, 121, 32, 116,
    104, 101, 32, 117, 115, 101, 114>>

\* "404, message='Not Found', url='http://max/media'"
Http404Text ==
    <<52, 48, 52, 44, 32, 109, 101, 115, 115, 97, 103, 101, 61, 39, 78, 111,
    116, 32, 70, 111, 117, 110, 100, 39, 44, 32, 117, 114, 108, 61, 39, 104,
    116, 116, 112, 58, 47, 47, 109, 97, 120, 47, 109, 101, 100, 105, 97,
    39>>

\* "Connection reset by peer"
ConnResetText ==
    <<67, 111, 110, 110, 101, 99, 116, 105, 111, 110, 32, 114, 101, 115,
    101, 116, 32, 98, 121, 32, 112, 101, 101, 114>>

\* "unexpected"
UnexpectedText ==
    <<117, 110, 101, 120, 112, 101, 99, 116, 101, 100>>

\* "exceptions must derive from BaseException"
RaiseNoneText ==
    <<101, 120, 99, 101, 112, 116, 105, 111, 110, 115, 32, 109, 117, 115,
    116, 32, 100, 101, 114, 105, 118, 101, 32, 102, 114, 111, 109, 32, 66,
    97, 115, 101, 69, 120, 99, 101, 112, 116, 105, 111, 110>>

\* "not found"
not_found ==
    <<110, 111, 116, 32, 102, 111, 117, 110, 100>>

\* "chat not found"
chat_not_found ==
    <<99, 104, 97, 116, 32, 110, 111, 116, 32, 102, 111, 117, 110, 100>>

\* what a telegram_bot.send_* call may raise
SendErrors ==
    { Err("BadRequest", ChatNotFoundText),
      Err("Forbidden", BlockedText) }

\* what one GET attempt of the download may raise; str(TimeoutError()) is ""
TimeoutErr == Err("TimeoutError", <<>>)
Http404 == Err("ClientError", Http404Text)
ConnReset == Err("ClientError", ConnResetText)
OtherErr == Err("Exception", UnexpectedText)

OkResp == Err("ok", <<>>)
NoErr == Err("None", <<>>)
\* raise None
RaiseNone == Err("TypeError", RaiseNoneText)

AttemptOutcomes == {OkResp, TimeoutErr, Http404}

DefaultMaxRetries == 3

-----------------------------------------------------------------------------
(* download_media_from_url: the retry loop, run on the outcomes outs[k+1]   *)
(* of the GET attempts k = 0, 1, ...                                        *)

\* the loop sleeping after every failed attempt, the last one too
RECURSIVE fetch_loop_AlwaysSleeps(_, _, _, _, _)
fetch_loop_AlwaysSleeps(outs, max_retries, attempt, last_exception, sleeps) ==
    IF attempt >= max_retries
    THEN [kind |-> "raise",
          exc |-> IF last_exception = NoErr THEN RaiseNone ELSE last_exception,
          attempts |-> attempt, sleeps |-> sleeps]
    ELSE LET o == outs[attempt + 1] IN
         IF o.cls = "ok"
         THEN [kind |-> "return", exc |-> NoErr, attempts |-> attempt + 1, sleeps |-> sleeps]
         ELSE IF o.cls \in {"TimeoutError", "ClientError"}
         THEN fetch_loop_AlwaysSleeps(outs, max_retries, attempt + 1, o,
                                      Append(sleeps, 2 ^ attempt))
         ELSE [kind |-> "raise", exc |-> o, attempts |-> attempt + 1, sleeps |-> sleeps]

\* the loop retrying after every exception, whatever its class
RECURSIVE fetch_loop_RetriesAll(_, _, _, _, _)
fetch_loop_RetriesAll(outs, max_retries, attempt, last_exception, sleeps) ==
    IF attempt >= max_retries
    THEN [kind |-> "raise",
          exc |-> IF last_exception = NoErr THEN RaiseNone ELSE last_exception,
          attempts |-> attempt, sleeps |-> sleeps]
    ELSE LET o == outs[attempt + 1] IN
         IF o.cls = "ok"
         THEN [kind |-> "return", exc |-> NoErr, attempts |-> attempt + 1, sleeps |-> sleeps]
         ELSE fetch_loop_RetriesAll(outs, max_retries, attempt + 1, o,
                                    IF attempt < max_retries - 1
                                    THEN Append(sleeps, 2 ^ attempt) ELSE sleeps)

RECURSIVE fetch_loop(_, _, _, _, _)
fetch_loop(outs, max_retries, attempt, last_exception, sleeps) ==
    IF attempt >= max_retries
    THEN [kind |-> "raise",
          exc |-> IF last_exception = NoErr THEN RaiseNone ELSE last_exception,
          attempts |-> attempt, sleeps |-> sleeps]
    ELSE LET o == outs[attempt + 1] IN
         IF o.cls = "ok"
         THEN [kind |-> "return", exc |-> NoErr, attempts |-> attempt + 1, sleeps |-> sleeps]
         ELSE IF o.cls \in {"TimeoutError", "ClientError"}
         THEN fetch_loop(outs, max_retries, attempt + 1, o,
                         IF attempt < max_retries - 1
                         THEN Append(sleeps, 2 ^ attempt) ELSE sleeps)
         ELSE [kind |-> "raise", exc |-> o, attempts |-> attempt + 1, sleeps |-> sleeps]

download_media_from_url(outs, max_retries) ==
    fetch_loop(outs, max_retries, 0, NoErr, <<>>)

\* a call download_media_from_url(url, filename, max_retries) whose GET attempts
\* go as outs
FetchCall(outs, max_retries) == [outs |-> outs, max_retries |-> max_retries]
NoCall == FetchCall(<<>>, 0)
NoRet == [kind |-> "none", exc |-> NoErr, attempts |-> 0, sleeps |-> <<>>]

\* the largest max_retries a call is made with
MaxMaxRetries == 4

\* what one GET attempt may give: a body, a timeout, a transport error, or an
\* exception of another class
FetchOutcomes == AttemptOutcomes \cup {OtherErr}

FetchCalls ==
    {FetchCall(outs, n) : outs \in [1..MaxMaxRetries -> FetchOutcomes], n \in 0..MaxMaxRetries}

-----------------------------------------------------------------------------
(* Inbound messages                                                        *)

MAX_CHAT_ID == "max-chat"

NoAttr == "NoAttr"

\* ref: base_url of a PhotoAttach, id of a VideoAttach, url of an AudioAttach,
\* file_id of a FileAttach; name: the declared name of a FileAttach
Attach(cls, ref, name) == [cls |-> cls, ref |-> ref, name |-> name]

Photo == Attach("PhotoAttach", "http://max/photo", NoAttr)
Video == Attach("VideoAttach", "v5", NoAttr)
Sticker == Attach("StickerAttach", "s1", NoAttr)

FirstAttaches ==
    { Photo,
      Attach("PhotoAttach", None, NoAttr),
      Video,
      Attach("VideoAttach", None, NoAttr),
      Attach("AudioAttach", "http://max/audio", NoAttr),
      Attach("AudioAttach", None, NoAttr),
      Attach("FileAttach", "f9", "doc.pdf"),
      Attach("FileAttach", "f9", NoAttr),
      Attach("FileAttach", None, NoAttr),
      Sticker,
      Attach("ControlAttach", None, NoAttr),
      Attach("ContactAttach", None, NoAttr) }

\* the attachments that may follow the first
MoreAttaches == {Attach("PhotoAttach", "http://max/photo2", NoAttr)}

MaxAttaches == 2

RECURSIVE Tails(_)
Tails(n) ==
    IF n = 0 THEN {<<>>}
    ELSE Tails(n - 1)
           \cup {Append(t, a) : t \in {u \in Tails(n - 1) : Len(u) = n - 1}, a \in MoreAttaches}

Msg(status, chat, txt, sender, atts) ==
    [id |-> "42", chat_id |-> chat, status |-> status, text |-> txt,
     sender |-> sender, attaches |-> atts]

NoMsg == [id |-> None, chat_id |-> None, status |-> None, text |-> None,
          sender |-> None, attaches |-> <<>>]

Messages ==
    \* every kind of first attachment, with and without text
    {Msg(None, MAX_CHAT_ID, t, "7", a) :
        t \in {None, "hi"}, a \in {<<>>} \cup {<<f>> : f \in FirstAttaches}}
    \* no sender id; an empty text; a status that is not REMOVED
    \cup {Msg(None, MAX_CHAT_ID, t, None, a) : t \in {None, "hi"}, a \in {<<>>, <<Photo>>}}
    \cup {Msg(None, MAX_CHAT_ID, "", "7", a) : a \in {<<>>, <<Sticker>>}}
    \cup {Msg("EDITED", MAX_CHAT_ID, t, "7", <<>>) : t \in {None, "hi"}}
    \* deleted messages
    \cup {Msg("REMOVED", MAX_CHAT_ID, t, "7", a) :
            t \in {None, "hi"}, a \in {<<>>, <<Photo>>, <<Video>>}}
    \* a message of another chat
    \cup {Msg(None, "other-chat", "hi", "7", <<Photo>>)}
    \* several attachments
    \cup {Msg(None, MAX_CHAT_ID, "hi", "7", <<f>> \o t) :
            f \in {Photo, Video, Sticker}, t \in Tails(MaxAttaches - 1) \ {<<>>}}

\* The messages of the runs in which commands interleave with the handler.
CoreMessages ==
    { Msg("REMOVED", MAX_CHAT_ID, "hi", "7", <<>>),
      Msg(None, MAX_CHAT_ID, "", "7", <<>>),
      Msg(None, MAX_CHAT_ID, "hi", "7", <<>>),
      Msg(None, MAX_CHAT_ID, "hi", "7", <<Photo>>),
      Msg(None, MAX_CHAT_ID, None, "7", <<Video>>),
      Msg(None, MAX_CHAT_ID, "hi", "7", <<Attach("FileAttach", "f9", "doc.pdf")>>) }

\* The messages the handler filters out or forwards as text, and one photo:
\* the runs on every answer of the sender lookup.
SenderMessages ==
    {m \in Messages : \/ m.status # None \/ m.chat_id # MAX_CHAT_ID \/ m.attaches = <<>>
                      \/ m.sender = None \/ m.text = ""}
        \cup {Msg(None, MAX_CHAT_ID, "hi", "7", <<Photo>>)}

\* The messages with attachments to classify: the runs on every kind of first
\* attachment and every answer of its lookup.
AttachMessages ==
    {m \in Messages : /\ m.status = None /\ m.chat_id = MAX_CHAT_ID /\ m.attaches # <<>>
                      /\ m.sender # None /\ m.text # ""}

\* The message of the runs in which the writes of the state file may fail.
DiskMessages == {Msg(None, MAX_CHAT_ID, "hi", None, <<>>)}

\* What a Max API call gives: it raises, returns None, or returns an object;
\* names of a user; url and unsafe of a video or file info (NoAttr: no such
\* attribute).
Ret(kind, names, url, unsafe) == [kind |-> kind, names |-> names, url |-> url, unsafe |-> unsafe]
Raises == Ret("raise", <<>>, NoAttr, NoAttr)
RetNone == Ret("none", <<>>, NoAttr, NoAttr)
Pending == Ret("pending", <<>>, NoAttr, NoAttr)
User(names) == Ret("obj", names, NoAttr, NoAttr)
Info(url, unsafe) == Ret("obj", <<>>, url, unsafe)

UserResults ==
    { Raises, RetNone, User(<<>>),
      User(<<[first_name |-> "Ivan", name |-> "Ivan P"]>>),
      User(<<[first_name |-> None, name |-> None]>>) }

CoreUserResults == {User(<<[first_name |-> "Ivan", name |-> "Ivan P"]>>)}

VideoResults ==
    {Raises, RetNone, Info(NoAttr, NoAttr), Info(None, NoAttr), Info("http://max/video", NoAttr)}

FileResults ==
    { Raises, RetNone,
      Info("http://max/file", "True"),
      Info("http://max/file", NoAttr),
      Info(NoAttr, "False"),
      Info(None, "False"),
      Info("http://max/file", "False") }

Truthy(x) == x # None /\ x # "" /\ x # "False"

\* message_status and MessageStatus.REMOVED in message_status
IsRemoved_NoCheck(message_status) == FALSE
IsRemoved(message_status) ==
    /\ Truthy(message_status)
    /\ Contains(<<message_status>>, <<"REMOVED">>)

\* x or ""
OrEmpty(x) == IF Truthy(x) THEN x ELSE ""

\* not text and not attachments_to_process
NothingToForward_NoCheck(txt, atts) == FALSE
NothingToForward(txt, atts) == ~Truthy(txt) /\ atts = <<>>

\* tg_caption
Caption(name, txt) ==
    <<"MAX", "From:", name>> \o (IF Truthy(txt) THEN <<"\n", txt>> ELSE <<>>)

NoFile == <<>>

-----------------------------------------------------------------------------
VARIABLES
    disk,           \* environment: "reliable", or "faulty" when writes may fail
    main_pc,        \* position of main(): "boot" before load_state, then the await
                    \* it is suspended at, "exited" / "failed" once it has ended
    tg_app,         \* the Telegram application: the last of initialize, start,
                    \* updater.start_polling, updater.stop, stop, shutdown to return
    max_client,     \* the Max connection: "new", "open" after __aenter__,
                    \* "closed" after __aexit__
    main_exc,       \* the exception main() ends with once its finally clause is done
    ACTIVE_CHATS,   \* the registry (module global)
    file,           \* STATE_FILE on disk
    mutated,        \* history: an add / remove / discard of the registry has run
    write_failed,   \* history: some save_state failed
    reply,          \* the reply_text call a command handler is awaiting, or NoReply
    pc,             \* position of handle_max_message
    msg,            \* message, the argument of the running handler
    result,         \* how the handler ended (at pc = "return")
    text, sender_name, tg_caption, media_url, media_type, filename,
    snapshot,       \* ACTIVE_CHATS.copy() of the fan-out
    todo,           \* destinations of the snapshot not yet iterated
    tg_chat_id,     \* the destination being served
    lookups,        \* Max API calls made for this message, with what they gave
    sent,           \* per destination, the Telegram send calls made for this message
    outcome,        \* per destination, how its iteration of the fan-out ended
    fetches,        \* history: download_media_from_url calls made for this message
    buffers,        \* per destination, the BytesIO downloaded for it: "none", "open", "closed"
    persisted,      \* history: the registry the last save_state wrote, when it is known
    dl_call,        \* a call of download_media_from_url on its own: its arguments
    dl_ret          \* ... and how it ended

sideVars == <<disk, dl_call, dl_ret>>
mainVars == <<main_pc, tg_app, max_client, main_exc>>
regVars == <<sideVars, mainVars, ACTIVE_CHATS, file, mutated, write_failed, persisted>>
locVars == <<text, sender_name, tg_caption, media_url, media_type, filename>>
fanVars == <<snapshot, todo, tg_chat_id, sent, outcome, fetches, buffers>>
msgVars == <<pc, msg, result, lookups>>
vars == <<regVars, reply, locVars, fanVars, msgVars>>

-----------------------------------------------------------------------------
(* The state file: a JSON document {"active_chats": [...]}                  *)

JStr(s) == [type |-> "string", lit |-> s]
JNum(s) == [type |-> "number", lit |-> s]

\* str(x) of a JSON scalar
Str(j) == j.lit

FileAbsent == [kind |-> "absent", chats |-> <<>>]
FileMalformed == [kind |-> "malformed", chats |-> <<>>]
FileNoKey == [kind |-> "nokey", chats |-> <<>>]
FileOk(l) == [kind |-> "ok", chats |-> l]

InitialFiles ==
    { FileAbsent, FileMalformed, FileNoKey,
      FileOk(<<>>),
      FileOk(<<JStr("111")>>),
      FileOk(<<JNum("222")>>),
      FileOk(<<JStr("222"), JStr("111")>>),
      FileOk(<<JStr("333"), JNum("333")>>) }

Range(s) == {s[i] : i \in 1..Len(s)}

\* the registry load_state leaves, from file f, when ACTIVE_CHATS was cur
load_state(f, cur) ==
    CASE f.kind = "absent" -> cur
      [] f.kind = "malformed" -> cur
      [] f.kind = "nokey" -> {}
      [] OTHER -> {Str(j) : j \in Range(f.chats)}

\* list(S): the elements of S, each once, in some order
Lists(S) ==
    {l \in [1..Cardinality(S) -> S] : \A i, j \in 1..Cardinality(S) : l[i] = l[j] => i = j}

\* the ways one save_state call can go
WriteOutcomes(S) ==
    {[kind |-> "ok", list |-> l] : l \in Lists(S)}
        \cup (IF disk = "faulty"
              THEN {[kind |-> "open_fails", list |-> <<>>],
                    [kind |-> "dump_fails", list |-> <<>>]}
              ELSE {})

Wrote(w) == IF w.kind = "ok" THEN "ok" ELSE "failed"

\* what is known of the registry behind the contents of the state file
Saved(S) == [known |-> TRUE, ids |-> S]
NotSaved == [known |-> FALSE, ids |-> {}]

\* save_state opening STATE_FILE in mode 'a': a second document after the first
save_state_AppendMode(w) ==
    /\ file' = (CASE w.kind = "ok" /\ file.kind = "absent" ->
                       FileOk([i \in 1..Len(w.list) |-> JStr(w.list[i])])
                  [] w.kind = "open_fails" -> file
                  [] OTHER -> FileMalformed)
    /\ write_failed' = (write_failed \/ w.kind # "ok")
    /\ persisted' = (CASE w.kind = "ok" -> Saved(Range(w.list))
                       [] w.kind = "open_fails" -> persisted
                       [] OTHER -> NotSaved)

save_state(w) ==
    /\ file' = (CASE w.kind = "ok" -> FileOk([i \in 1..Len(w.list) |-> JStr(w.list[i])])
                  [] w.kind = "open_fails" -> file
                  [] OTHER -> FileMalformed)
    /\ write_failed' = (write_failed \/ w.kind # "ok")
    /\ persisted' = (CASE w.kind = "ok" -> Saved(Range(w.list))
                       [] w.kind = "open_fails" -> persisted
                       [] OTHER -> NotSaved)

\* load_state without its try / except: an unreadable file ends main()
LoadState_Propagates ==
    /\ main_pc = "boot"
    /\ IF file.kind = "malformed"
       THEN main_pc' = "failed" /\ main_exc' = "Error" /\ UNCHANGED ACTIVE_CHATS
       ELSE /\ main_pc' = "tg_initializing" /\ UNCHANGED main_exc
            /\ ACTIVE_CHATS' = load_state(file, ACTIVE_CHATS)
    /\ UNCHANGED <<sideVars, tg_app, max_client, file, mutated, write_failed, persisted, reply, locVars, fanVars, msgVars>>

\* load_state() at import; main() runs to its first await, tg_app.initialize()
LoadState ==
    /\ main_pc = "boot"
    /\ main_pc' = "tg_initializing"
    /\ ACTIVE_CHATS' = load_state(file, ACTIVE_CHATS)
    /\ UNCHANGED <<sideVars, tg_app, max_client, main_exc, file, mutated, write_failed, persisted, reply, locVars, fanVars, msgVars>>

-----------------------------------------------------------------------------
(* main(): its awaits from the start of the process to its end              *)

\* main() goes from one await to the next: the awaited call returns (app, max:
\* what it leaves of the Telegram application and of the Max connection) or
\* raises (exc)
MainStep(from, to, app, max, exc) ==
    /\ main_pc = from
    /\ main_pc' = to
    /\ tg_app' = app /\ max_client' = max /\ main_exc' = exc
    /\ UNCHANGED <<sideVars, ACTIVE_CHATS, file, mutated, write_failed, persisted,
                   reply, locVars, fanVars, msgVars>>

\* await tg_app.initialize() returns; await tg_app.start()
AppInitialized == MainStep("tg_initializing", "tg_starting", "initialized", max_client, main_exc)
\* tg_app.start() returns; MaxClient(...), the handlers are registered;
\* await tg_app.updater.start_polling()
AppStarted == MainStep("tg_starting", "polling_starting", "started", max_client, main_exc)
\* start_polling() returns; try: async with max_client: awaits __aenter__
PollingStarted == MainStep("polling_starting", "max_entering", "polling", max_client, main_exc)
\* __aenter__ returns; while True: await asyncio.sleep(10)
MaxClientEntered == MainStep("max_entering", "running", tg_app, "open", main_exc)

\* main() up to the loop it sleeps in
StartUp == AppInitialized \/ AppStarted \/ PollingStarted \/ MaxClientEntered

\* An await before the try block raises, or main() is cancelled at it: main()
\* ends at once, nothing of the Telegram application is stopped.
StartupAborted ==
    \E at \in {"tg_initializing", "tg_starting", "polling_starting"},
       e \in {"CancelledError", "Error"} :
        MainStep(at, "failed", tg_app, max_client, e)

\* __aenter__ raises or is cancelled: no __aexit__ is awaited; the except clause
\* takes a CancelledError, any other exception is raised again after finally
MaxEnterAborted ==
    \/ MainStep("max_entering", "updater_stopping", tg_app, max_client, "None")
    \/ MainStep("max_entering", "updater_stopping", tg_app, max_client, "Error")

\* CancelledError is raised at `await asyncio.sleep(10)`; leaving the block
\* `async with max_client` awaits max_client.__aexit__
StopSignal == MainStep("running", "max_closing", tg_app, max_client, main_exc)
\* __aexit__ returns; the except clause logs; finally: await tg_app.updater.stop()
MaxClientExit == MainStep("max_closing", "updater_stopping", tg_app, "closed", main_exc)
\* __aexit__ raises or is cancelled: the except clause takes a CancelledError,
\* any other exception is raised again after finally
MaxExitAborted ==
    \/ MainStep("max_closing", "updater_stopping", tg_app, max_client, "None")
    \/ MainStep("max_closing", "updater_stopping", tg_app, max_client, "Error")
\* await tg_app.stop()
UpdaterStopped == MainStep("updater_stopping", "app_stopping", "updater_stopped", max_client, main_exc)
\* await tg_app.shutdown()
AppStopped == MainStep("app_stopping", "app_shutting_down", "stopped", max_client, main_exc)
\* main() returns, or raises what __aenter__ raised
AppShutdown ==
    MainStep("app_shutting_down", IF main_exc = "None" THEN "exited" ELSE "failed",
             "shut_down", max_client, main_exc)

\* An await of the finally clause raises or is cancelled: main() ends with the
\* awaits that follow it never made.
ShutdownAborted ==
    \E at \in {"updater_stopping", "app_stopping", "app_shutting_down"},
       e \in {"CancelledError", "Error"} :
        MainStep(at, "failed", tg_app, max_client, e)

-----------------------------------------------------------------------------
(* Telegram commands                                                       *)

\* cmd, chat: the command being answered; text: the status replied;
\* wrote: what the handler did to the state file ("no", "ok", "failed")
Reply(cmd, chat, txt, wrote) == [cmd |-> cmd, chat |-> chat, text |-> txt, wrote |-> wrote]
NoReply == Reply("none", None, None, "no")
Activated == "activated"
AlreadyActive == "already active"
Deactivated == "deactivated"
WasNotActive == "was not active"

\* The Telegram application polls and dispatches commands from the return of
\* updater.start_polling() until tg_app.stop() has returned or main() has ended.
CommandsServed ==
    /\ main_pc \notin {"exited", "failed"}
    /\ tg_app \in {"polling", "updater_stopped"}

\* start_forwarding without its membership test
start_forwarding_NoCheck(chat_id) ==
    /\ CommandsServed
    /\ reply = NoReply
    /\ ACTIVE_CHATS' = ACTIVE_CHATS \cup {chat_id}
    /\ mutated' = TRUE
    /\ \E w \in WriteOutcomes(ACTIVE_CHATS') :
         /\ save_state(w)
         /\ reply' = Reply("start", chat_id, Activated, Wrote(w))
    /\ UNCHANGED <<sideVars, mainVars, locVars, fanVars, msgVars>>

\* start_forwarding without its save_state()
start_forwarding_NoFlush(chat_id) ==
    /\ CommandsServed
    /\ reply = NoReply
    /\ IF chat_id \notin ACTIVE_CHATS
       THEN /\ ACTIVE_CHATS' = ACTIVE_CHATS \cup {chat_id}
            /\ mutated' = TRUE
            /\ reply' = Reply("start", chat_id, Activated, "no")
            /\ UNCHANGED <<file, write_failed, persisted>>
       ELSE /\ reply' = Reply("start", chat_id, AlreadyActive, "no")
            /\ UNCHANGED <<ACTIVE_CHATS, mutated, file, write_failed, persisted>>
    /\ UNCHANGED <<sideVars, mainVars, locVars, fanVars, msgVars>>

\* start_forwarding undoing the add when the write failed
start_forwarding_RollsBack(chat_id) ==
    /\ CommandsServed
    /\ reply = NoReply
    /\ IF chat_id \notin ACTIVE_CHATS
       THEN /\ mutated' = TRUE
            /\ \E w \in WriteOutcomes(ACTIVE_CHATS \cup {chat_id}) :
                 /\ save_state(w)
                 /\ ACTIVE_CHATS' = IF w.kind = "ok" THEN ACTIVE_CHATS \cup {chat_id}
                                    ELSE ACTIVE_CHATS
                 /\ reply' = Reply("start", chat_id, Activated, Wrote(w))
       ELSE /\ reply' = Reply("start", chat_id, AlreadyActive, "no")
            /\ UNCHANGED <<ACTIVE_CHATS, mutated, file, write_failed, persisted>>
    /\ UNCHANGED <<sideVars, mainVars, locVars, fanVars, msgVars>>

start_forwarding(chat_id) ==
    /\ CommandsServed
    /\ reply = NoReply
    /\ IF chat_id \notin ACTIVE_CHATS
       THEN /\ ACTIVE_CHATS' = ACTIVE_CHATS \cup {chat_id}
            /\ mutated' = TRUE
            /\ \E w \in WriteOutcomes(ACTIVE_CHATS') :
                 /\ save_state(w)
                 /\ reply' = Reply("start", chat_id, Activated, Wrote(w))
       ELSE /\ reply' = Reply("start", chat_id, AlreadyActive, "no")
            /\ UNCHANGED <<ACTIVE_CHATS, mutated, file, write_failed, persisted>>
    /\ UNCHANGED <<sideVars, mainVars, locVars, fanVars, msgVars>>

\* stop_forwarding with discard() in place of the membership test
stop_forwarding_Discard(chat_id) ==
    /\ CommandsServed
    /\ reply = NoReply
    /\ ACTIVE_CHATS' = ACTIVE_CHATS \ {chat_id}
    /\ mutated' = TRUE
    /\ \E w \in WriteOutcomes(ACTIVE_CHATS') :
         /\ save_state(w)
         /\ reply' = Reply("stop", chat_id, Deactivated, Wrote(w))
    /\ UNCHANGED <<sideVars, mainVars, locVars, fanVars, msgVars>>

stop_forwarding(chat_id) ==
    /\ CommandsServed
    /\ reply = NoReply
    /\ IF chat_id \in ACTIVE_CHATS
       THEN /\ ACTIVE_CHATS' = ACTIVE_CHATS \ {chat_id}
            /\ mutated' = TRUE
            /\ \E w \in WriteOutcomes(ACTIVE_CHATS') :
                 /\ save_state(w)
                 /\ reply' = Reply("stop", chat_id, Deactivated, Wrote(w))
       ELSE /\ reply' = Reply("stop", chat_id, WasNotActive, "no")
            /\ UNCHANGED <<ACTIVE_CHATS, mutated, file, write_failed, persisted>>
    /\ UNCHANGED <<sideVars, mainVars, locVars, fanVars, msgVars>>

\* await update.message.reply_text(...) returns (or raises) and the handler ends
ReplyDone ==
    /\ reply # NoReply
    /\ reply' = NoReply
    /\ UNCHANGED <<regVars, locVars, fanVars, msgVars>>

-----------------------------------------------------------------------------
(* handle_max_message                                                      *)

NoOutcome == [stage |-> "-", exc |-> NoErr, wrote |-> "no"]
\* the iteration for a destination ended at stage ("send", "download", or
\* "nothing" when there was nothing to send), with exception exc or none;
\* wrote: what its except clause did to the state file
Ended(stage, e, wrote) == [stage |-> stage, exc |-> e, wrote |-> wrote]

Call(op, cap, fname) == [op |-> op, caption |-> cap, file |-> fname]

Asked(call) == [call |-> call, ret |-> Pending]
Answered(lk, call, r) == (lk \ {Asked(call)}) \cup {[call |-> call, ret |-> r]}

\* the if / elif chain on media_type with two branches swapped
SendOp_Swapped(type) ==
    CASE type = "photo" -> "send_photo"
      [] type = "video" -> "send_document"
      [] type = "audio" -> "send_audio"
      [] type = "document" -> "send_video"
      [] OTHER -> "none"

\* the send operation of the if / elif chain on media_type
SendOp(type) ==
    CASE type = "photo" -> "send_photo"
      [] type = "video" -> "send_video"
      [] type = "audio" -> "send_audio"
      [] type = "document" -> "send_document"
      [] OTHER -> "none"

\* "not found" in str(e).lower() or "chat not found" in str(e).lower()
NotFound(e) ==
    \/ Contains(LowerAll(e.desc), not_found)
    \/ Contains(LowerAll(e.desc), chat_not_found)

\* if media_type
HasMedia_TypeOnly(url, type) == Truthy(type)
\* if media_url and media_type
HasMedia(url, type) == Truthy(url) /\ Truthy(type)

\* The for loop over the snapshot, from the destinations rem still to serve, up
\* to its next await (the download or the send for a destination) or its end.
Iterate(rem, url, type, txt, cap, out, snt) ==
    IF rem = {}
    THEN /\ pc' = "return" /\ result' = "done"
         /\ todo' = {} /\ tg_chat_id' = None
         /\ outcome' = out /\ sent' = snt
         /\ UNCHANGED fetches
    ELSE IF HasMedia(url, type)
    THEN \E d \in rem :
         /\ pc' = "download" /\ result' = "running"
         /\ todo' = rem \ {d} /\ tg_chat_id' = d
         /\ outcome' = out /\ sent' = snt
         /\ fetches' = fetches + 1
    ELSE IF Truthy(txt)
    THEN \E d \in rem :
         /\ pc' = "send" /\ result' = "running"
         /\ todo' = rem \ {d} /\ tg_chat_id' = d
         /\ outcome' = out
         /\ sent' = [snt EXCEPT ![d] = Append(@, Call("send_message", cap, NoFile))]
         /\ UNCHANGED fetches
    ELSE /\ pc' = "return" /\ result' = "done"
         /\ todo' = {} /\ tg_chat_id' = None
         /\ outcome' = [c \in ChatIds |-> IF c \in rem THEN Ended("nothing", NoErr, "no")
                                                      ELSE out[c]]
         /\ sent' = snt
         /\ UNCHANGED fetches

\* The handler returns before the fan-out.
Return(why, lk) ==
    /\ pc' = "return" /\ result' = why /\ lookups' = lk
    /\ snapshot' = {} /\ todo' = {} /\ tg_chat_id' = None
    /\ sent' = [c \in ChatIds |-> <<>>]
    /\ outcome' = [c \in ChatIds |-> NoOutcome]
    /\ UNCHANGED <<fetches, buffers>>

\* The fan-out serving every chat that ever sent a command, registered or not
FanOut_EveryChat(type, url, fname, txt, cap, lk) ==
    /\ media_type' = type /\ media_url' = url /\ filename' = fname
    /\ IF ACTIVE_CHATS = {}
       THEN Return("no_chats", lk)
       ELSE /\ lookups' = lk
            /\ snapshot' = ChatIds
            /\ UNCHANGED buffers
            /\ Iterate(ChatIds, url, type, txt, cap,
                       [c \in ChatIds |-> NoOutcome], [c \in ChatIds |-> <<>>])

\* "Отправка в Telegram": the check of the registry, the snapshot, the loop
FanOut(type, url, fname, txt, cap, lk) ==
    /\ media_type' = type /\ media_url' = url /\ filename' = fname
    /\ IF ACTIVE_CHATS = {}
       THEN Return("no_chats", lk)
       ELSE /\ lookups' = lk
            /\ snapshot' = ACTIVE_CHATS
            /\ UNCHANGED buffers
            /\ Iterate(ACTIVE_CHATS, url, type, txt, cap,
                       [c \in ChatIds |-> NoOutcome], [c \in ChatIds |-> <<>>])

\* The classification reading the last attachment in place of the first
Classify_LastAttachment(m, name, lk) ==
    LET txt == OrEmpty(m.text)
        cap == Caption(name, txt)
        first == m.attaches[Len(m.attaches)]
        Await(where, type) ==
            /\ pc' = where /\ result' = "running"
            /\ lookups' = lk \cup {Asked(where)}
            /\ media_type' = type /\ media_url' = None /\ filename' = NoFile
            /\ UNCHANGED fanVars
    IN  /\ text' = txt /\ sender_name' = name /\ tg_caption' = cap
        /\ IF m.attaches = <<>>
           THEN FanOut(None, None, NoFile, txt, cap, lk)
           ELSE CASE first.cls = "PhotoAttach" ->
                       FanOut("photo", first.ref,
                              IF Truthy(first.ref) THEN <<"photo_", m.id, ".jpg">> ELSE NoFile,
                              txt, cap, lk)
                  [] first.cls = "VideoAttach" ->
                       IF Truthy(first.ref)
                       THEN Await("get_video_by_id", "video")
                       ELSE FanOut("video", None, NoFile, txt, cap, lk)
                  [] first.cls = "AudioAttach" ->
                       FanOut("audio", first.ref,
                              IF Truthy(first.ref) THEN <<"audio_", m.id, ".ogg">> ELSE NoFile,
                              txt, cap, lk)
                  [] first.cls = "FileAttach" ->
                       IF Truthy(first.ref)
                       THEN Await("get_file_by_id", "document")
                       ELSE FanOut("document", None, NoFile, txt, cap, lk)
                  [] OTHER -> FanOut(None, None, NoFile, txt, cap, lk)

\* From the caption to the first await of the attachment's resolution.
Classify(m, name, lk) ==
    LET txt == OrEmpty(m.text)
        cap == Caption(name, txt)
        first == m.attaches[1]
        Await(where, type) ==
            /\ pc' = where /\ result' = "running"
            /\ lookups' = lk \cup {Asked(where)}
            /\ media_type' = type /\ media_url' = None /\ filename' = NoFile
            /\ UNCHANGED fanVars
    IN  /\ text' = txt /\ sender_name' = name /\ tg_caption' = cap
        /\ IF m.attaches = <<>>
           THEN FanOut(None, None, NoFile, txt, cap, lk)
           ELSE CASE first.cls = "PhotoAttach" ->
                       FanOut("photo", first.ref,
                              IF Truthy(first.ref) THEN <<"photo_", m.id, ".jpg">> ELSE NoFile,
                              txt, cap, lk)
                  [] first.cls = "VideoAttach" ->
                       IF Truthy(first.ref)
                       THEN Await("get_video_by_id", "video")
                       ELSE FanOut("video", None, NoFile, txt, cap, lk)
                  [] first.cls = "AudioAttach" ->
                       FanOut("audio", first.ref,
                              IF Truthy(first.ref) THEN <<"audio_", m.id, ".ogg">> ELSE NoFile,
                              txt, cap, lk)
                  [] first.cls = "FileAttach" ->
                       IF Truthy(first.ref)
                       THEN Await("get_file_by_id", "document")
                       ELSE FanOut("document", None, NoFile, txt, cap, lk)
                  [] OTHER -> FanOut(None, None, NoFile, txt, cap, lk)

\* An inbound message arrives: the handler runs to its first await or return.
Receive(m) ==
    /\ main_pc = "running"
    /\ pc = "idle"
    /\ msg' = m
    /\ IF IsRemoved(m.status)
       THEN Return("removed", {}) /\ UNCHANGED locVars
       ELSE IF m.chat_id # MAX_CHAT_ID
       THEN Return("other_chat", {}) /\ UNCHANGED locVars
       ELSE IF NothingToForward(OrEmpty(m.text), m.attaches)
       THEN Return("empty", {}) /\ UNCHANGED locVars
       ELSE IF Truthy(m.sender)
       THEN /\ pc' = "get_user" /\ result' = "running"
            /\ lookups' = {Asked("get_user")}
            /\ UNCHANGED <<locVars, fanVars>>
       ELSE Classify(m, "Unknown", {})
    /\ UNCHANGED <<regVars, reply>>

\* name_obj.first_name or name_obj.name or "Неизвестный"; f"ID_{sender_id}"
SenderName(r, sender_id) ==
    IF r.kind = "obj" /\ r.names # <<>>
    THEN IF Truthy(r.names[1].first_name) THEN r.names[1].first_name
         ELSE IF Truthy(r.names[1].name) THEN r.names[1].name
         ELSE "Unknown"
    ELSE "ID_" \o sender_id

\* get_user whose exception leaves the handler
GetUserDone_Propagates(r) ==
    /\ pc = "get_user"
    /\ IF r.kind = "raise"
       THEN /\ pc' = "return" /\ result' = "raised"
            /\ lookups' = Answered(lookups, "get_user", r)
            /\ UNCHANGED <<locVars, fanVars>>
       ELSE Classify(msg, SenderName(r, msg.sender), Answered(lookups, "get_user", r))
    /\ UNCHANGED <<regVars, reply, msg>>

\* await max_client.get_user(sender_id) returns r, or raises
GetUserDone(r) ==
    /\ pc = "get_user"
    /\ Classify(msg, SenderName(r, msg.sender), Answered(lookups, "get_user", r))
    /\ UNCHANGED <<regVars, reply, msg>>

\* get_video_by_id whose exception leaves the handler
VideoLookupDone_Propagates(r) ==
    /\ pc = "get_video_by_id"
    /\ IF r.kind = "raise"
       THEN /\ pc' = "return" /\ result' = "raised"
            /\ lookups' = Answered(lookups, "get_video_by_id", r)
            /\ UNCHANGED <<media_type, media_url, filename, fanVars>>
       ELSE IF r.kind = "obj" /\ r.url # NoAttr
       THEN FanOut("video", r.url, <<"video_", msg.id, ".mp4">>, text, tg_caption,
                   Answered(lookups, "get_video_by_id", r))
       ELSE FanOut("video", None, NoFile, text, tg_caption,
                   Answered(lookups, "get_video_by_id", r))
    /\ UNCHANGED <<regVars, reply, msg, text, sender_name, tg_caption>>

\* await max_client.get_video_by_id(...) returns r, or raises (caught)
VideoLookupDone(r) ==
    /\ pc = "get_video_by_id"
    /\ IF r.kind = "obj" /\ r.url # NoAttr
       THEN FanOut("video", r.url, <<"video_", msg.id, ".mp4">>, text, tg_caption,
                   Answered(lookups, "get_video_by_id", r))
       ELSE FanOut("video", None, NoFile, text, tg_caption,
                   Answered(lookups, "get_video_by_id", r))
    /\ UNCHANGED <<regVars, reply, msg, text, sender_name, tg_caption>>

\* getattr(first_attachment, 'name', f"file_{message.id}.bin")
FileName(m) ==
    IF m.attaches[1].name = NoAttr THEN <<"file_", m.id, ".bin">>
    ELSE <<m.attaches[1].name>>

\* await max_client.get_file_by_id(...) returns r, or raises (caught); reading
\* file_info.unsafe of an object without it raises too
FileLookupDone(r) ==
    /\ pc = "get_file_by_id"
    /\ IF r.kind = "obj" /\ r.unsafe # NoAttr /\ ~Truthy(r.unsafe) /\ r.url # NoAttr
       THEN FanOut("document", r.url, FileName(msg), text, tg_caption,
                   Answered(lookups, "get_file_by_id", r))
       ELSE FanOut("document", None, NoFile, text, tg_caption,
                   Answered(lookups, "get_file_by_id", r))
    /\ UNCHANGED <<regVars, reply, msg, text, sender_name, tg_caption>>

\* the loop body without its try / except: the exception leaves the handler
except_Exception_Propagates(d, stage, e) ==
    /\ pc' = "return" /\ result' = "raised"
    /\ outcome' = [outcome EXCEPT ![d] = Ended(stage, e, "no")]
    /\ UNCHANGED <<ACTIVE_CHATS, mutated, file, write_failed, persisted,
                   todo, tg_chat_id, sent, fetches, buffers>>

\* The except clause of the loop body, for destination d and exception e raised
\* at stage ("download" or "send"), then the loop goes on.
except_Exception(d, stage, e) ==
    /\ UNCHANGED buffers
    /\ IF NotFound(e)
       THEN /\ ACTIVE_CHATS' = ACTIVE_CHATS \ {d}
            /\ mutated' = TRUE
            /\ \E w \in WriteOutcomes(ACTIVE_CHATS') :
                 /\ save_state(w)
                 /\ Iterate(todo, media_url, media_type, text, tg_caption,
                            [outcome EXCEPT ![d] = Ended(stage, e, Wrote(w))], sent)
       ELSE /\ UNCHANGED <<ACTIVE_CHATS, mutated, file, write_failed, persisted>>
            /\ Iterate(todo, media_url, media_type, text, tg_caption,
                       [outcome EXCEPT ![d] = Ended(stage, e, "no")], sent)

\* the download whose failure falls back to a text-only send
DownloadDone_TextFallback(outs) ==
    /\ pc = "download"
    /\ LET r == download_media_from_url(outs, DefaultMaxRetries) IN
       IF r.kind = "return" \/ Truthy(text)
       THEN /\ pc' = "send"
            /\ sent' = [sent EXCEPT ![tg_chat_id] =
                          Append(@, IF r.kind = "return"
                                    THEN Call(SendOp(media_type), tg_caption, filename)
                                    ELSE Call("send_message", tg_caption, NoFile))]
            /\ buffers' = IF r.kind = "return"
                          THEN [buffers EXCEPT ![tg_chat_id] = "open"] ELSE buffers
            /\ UNCHANGED <<ACTIVE_CHATS, mutated, file, write_failed, persisted,
                           result, todo, tg_chat_id, outcome, fetches>>
       ELSE except_Exception(tg_chat_id, "download", r.exc)
    /\ UNCHANGED <<sideVars, mainVars, reply, locVars, snapshot, msg, lookups>>

\* await download_media_from_url(media_url, filename) returns or raises, its GET
\* attempts ending as outs; on return the send call matched to media_type is made
DownloadDone(outs) ==
    /\ pc = "download"
    /\ LET r == download_media_from_url(outs, DefaultMaxRetries) IN
       IF r.kind = "return"
       THEN /\ pc' = "send"
            /\ sent' = [sent EXCEPT ![tg_chat_id] =
                          Append(@, Call(SendOp(media_type), tg_caption, filename))]
            /\ buffers' = [buffers EXCEPT ![tg_chat_id] = "open"]
            /\ UNCHANGED <<ACTIVE_CHATS, mutated, file, write_failed, persisted,
                           result, todo, tg_chat_id, outcome, fetches>>
       ELSE except_Exception(tg_chat_id, "download", r.exc)
    /\ UNCHANGED <<sideVars, mainVars, reply, locVars, snapshot, msg, lookups>>

\* await telegram_bot.send_*(chat_id=tg_chat_id, ...) returns (r = OkResp) or raises
\* r; after a media send that returned, media_bytes.close()
SendDone(r) ==
    /\ pc = "send"
    /\ IF r = OkResp
       THEN /\ UNCHANGED <<ACTIVE_CHATS, mutated, file, write_failed, persisted>>
            /\ buffers' = IF HasMedia(media_url, media_type)
                          THEN [buffers EXCEPT ![tg_chat_id] = "closed"]
                          ELSE buffers
            /\ Iterate(todo, media_url, media_type, text, tg_caption,
                       [outcome EXCEPT ![tg_chat_id] = Ended("send", NoErr, "no")], sent)
       ELSE except_Exception(tg_chat_id, "send", r)
    /\ UNCHANGED <<sideVars, mainVars, reply, locVars, snapshot, msg, lookups>>

\* The coroutine has returned: its frame, and what was observed of it, is gone.
HandlerExit ==
    /\ pc = "return"
    /\ pc' = "idle" /\ result' = "none" /\ msg' = NoMsg /\ lookups' = {}
    /\ text' = "" /\ sender_name' = None /\ tg_caption' = <<>>
    /\ media_url' = None /\ media_type' = None /\ filename' = NoFile
    /\ snapshot' = {} /\ todo' = {} /\ tg_chat_id' = None
    /\ sent' = [c \in ChatIds |-> <<>>]
    /\ outcome' = [c \in ChatIds |-> NoOutcome]
    /\ fetches' = 0
    /\ buffers' = [c \in ChatIds |-> "none"]
    /\ UNCHANGED <<regVars, reply>>

\* The outcomes of the GET attempts of one download: nothing follows the
\* attempt that ends the loop.
AttemptRuns ==
    {outs \in [1..DefaultMaxRetries -> AttemptOutcomes] :
        \A k \in 1..(DefaultMaxRetries - 1) :
            outs[k].cls \notin {"TimeoutError", "ClientError"} => outs[k + 1] = OkResp}

\* the download whose first attempt succeeds, and the one that times out at
\* every attempt
PlainRuns == {outs \in AttemptRuns : \A k \in 1..DefaultMaxRetries : outs[k] = outs[1] /\ outs[k] # Http404}

\* a send that returns, and one that raises Forbidden
PlainSends == {OkResp, Err("Forbidden", BlockedText)}

-----------------------------------------------------------------------------
\* main() before load_state(): no handler runs, nothing was observed
Booting ==
    /\ main_pc = "boot"
    /\ tg_app = "new" /\ max_client = "new" /\ main_exc = "None"
    /\ ACTIVE_CHATS = {}
    /\ file \in InitialFiles
    /\ mutated = FALSE
    /\ write_failed = FALSE
    /\ reply = NoReply
    /\ pc = "idle"
    /\ msg = NoMsg
    /\ result = "none"
    /\ text = "" /\ sender_name = None /\ tg_caption = <<>>
    /\ media_url = None /\ media_type = None /\ filename = NoFile
    /\ snapshot = {} /\ todo = {} /\ tg_chat_id = None
    /\ lookups = {}
    /\ sent = [c \in ChatIds |-> <<>>]
    /\ outcome = [c \in ChatIds |-> NoOutcome]
    /\ fetches = 0
    /\ buffers = [c \in ChatIds |-> "none"]
    /\ persisted = NotSaved

\* download_media_from_url is called by the handler only
NoFetch == dl_call = NoCall /\ dl_ret = NoRet

Init == disk = "reliable" /\ NoFetch /\ Booting

(* The bridge on the core messages, with every course of the downloads and of  *)
(* the sends; the commands interleave with the handler at every await.         *)
Next ==
    \/ LoadState
    \/ StartUp
    \/ \E c \in ChatIds : start_forwarding(c)
    \/ \E c \in ChatIds : stop_forwarding(c)
    \/ ReplyDone
    \/ \E m \in CoreMessages : Receive(m)
    \/ \E r \in CoreUserResults : GetUserDone(r)
    \/ \E r \in {Raises, Info("http://max/video", NoAttr)} : VideoLookupDone(r)
    \/ \E r \in {Raises, Info("http://max/file", "True")} : FileLookupDone(r)
    \/ \E outs \in AttemptRuns : DownloadDone(outs)
    \/ \E r \in {OkResp} \cup SendErrors : SendDone(r)
    \/ HandlerExit

Spec == Init /\ [][Next]_vars

(* The bridge on the messages the handler filters out or forwards as text and  *)
(* on every answer of the sender lookup; the commands interleave with the      *)
(* handler at every await.                                                     *)
NextSender ==
    \/ LoadState
    \/ StartUp
    \/ \E c \in ChatIds : start_forwarding(c)
    \/ \E c \in ChatIds : stop_forwarding(c)
    \/ ReplyDone
    \/ \E m \in SenderMessages : Receive(m)
    \/ \E r \in UserResults : GetUserDone(r)
    \/ \E outs \in PlainRuns : DownloadDone(outs)
    \/ \E r \in PlainSends : SendDone(r)
    \/ HandlerExit

SpecSender == Init /\ [][NextSender]_vars

(* The bridge on every kind of first attachment, alone and followed by others, *)
(* and on every answer of the video and file lookups; the commands interleave  *)
(* with the handler at every await.                                            *)
NextResolve ==
    \/ LoadState
    \/ StartUp
    \/ \E c \in ChatIds : start_forwarding(c)
    \/ \E c \in ChatIds : stop_forwarding(c)
    \/ ReplyDone
    \/ \E m \in AttachMessages : Receive(m)
    \/ \E r \in CoreUserResults : GetUserDone(r)
    \/ \E r \in VideoResults : VideoLookupDone(r)
    \/ \E r \in FileResults : FileLookupDone(r)
    \/ \E outs \in PlainRuns : DownloadDone(outs)
    \/ \E r \in PlainSends : SendDone(r)
    \/ HandlerExit

SpecResolve == Init /\ [][NextResolve]_vars

(* The registry and its file on a disk whose writes may fail: the commands     *)
(* interleaving with the fan-out of a text message and its self-healing        *)
(* removals.                                                                   *)
InitDisk == disk = "faulty" /\ NoFetch /\ Booting

NextDisk ==
    \/ LoadState
    \/ StartUp
    \/ \E c \in ChatIds : start_forwarding(c)
    \/ \E c \in ChatIds : stop_forwarding(c)
    \/ ReplyDone
    \/ \E m \in DiskMessages : Receive(m)
    \/ \E r \in {OkResp} \cup SendErrors : SendDone(r)
    \/ HandlerExit

SpecDisk == InitDisk /\ [][NextDisk]_vars

(* main() from its start to its end, and the next start of the process: the    *)
(* commands, the stop signal and the awaits of the shutdown.                   *)

\* The process is started again: ACTIVE_CHATS = set(), a new Application and a
\* new MaxClient, the state file is as the last run left it.
Restart ==
    /\ main_pc \in {"exited", "failed"}
    /\ reply = NoReply
    /\ pc = "idle"
    /\ main_pc' = "boot"
    /\ tg_app' = "new" /\ max_client' = "new" /\ main_exc' = "None"
    /\ ACTIVE_CHATS' = {}
    /\ mutated' = FALSE
    /\ UNCHANGED <<sideVars, file, write_failed, persisted, reply, locVars, fanVars, msgVars>>

NextMain ==
    \/ LoadState
    \/ StartUp
    \/ \E c \in ChatIds : start_forwarding(c)
    \/ \E c \in ChatIds : stop_forwarding(c)
    \/ ReplyDone
    \/ StartupAborted
    \/ MaxEnterAborted
    \/ StopSignal
    \/ MaxClientExit
    \/ MaxExitAborted
    \/ UpdaterStopped
    \/ AppStopped
    \/ AppShutdown
    \/ ShutdownAborted
    \/ Restart

SpecMain == Init /\ [][NextMain]_vars

(* download_media_from_url on its own, on every max_retries up to              *)
(* MaxMaxRetries and every course of its GET attempts.                         *)
InitFetch ==
    /\ disk = "reliable"
    /\ Booting
    /\ dl_call \in FetchCalls
    /\ dl_ret = NoRet

\* await download_media_from_url(url, filename, max_retries) returns or raises
Fetch ==
    /\ dl_ret = NoRet
    /\ dl_ret' = download_media_from_url(dl_call.outs, dl_call.max_retries)
    /\ UNCHANGED <<disk, dl_call, mainVars, ACTIVE_CHATS, file, mutated, write_failed,
                   persisted, reply, locVars, fanVars, msgVars>>

NextFetch == Fetch

SpecFetch == InitFetch /\ [][NextFetch]_vars
-----------------------------------------------------------------------------
(* Properties                                                              *)

MediaClasses == {"PhotoAttach", "VideoAttach", "AudioAttach", "FileAttach"}

\* the send operation the design matches to a kind of attachment
OpFor(cls) ==
    CASE cls = "PhotoAttach" -> "send_photo"
      [] cls = "VideoAttach" -> "send_video"
      [] cls = "AudioAttach" -> "send_audio"
      [] cls = "FileAttach" -> "send_document"
      [] OTHER -> "none"

NoSendAtAll == \A c \in ChatIds : sent[c] = <<>>

\* the ids listed in the state file
FileIds(f) == {f.chats[i].lit : i \in 1..Len(f.chats)}

\* the description of e contains "not found", whatever the case
DescNotFound(e) ==
    LET nf == <<110, 111, 116, 32, 102, 111, 117, 110, 100>>
    IN  \E i \in 0..(Len(e.desc) - 9) :
            \A j \in 1..9 :
                \/ e.desc[i + j] = nf[j]
                \/ nf[j] # 32 /\ e.desc[i + j] = nf[j] - 32

\* a lookup of the first attachment's URL was answered with ret satisfying P
Looked(call, P(_)) == \E l \in lookups : l.call = call /\ P(l.ret)

HasUrl(ret) == ret.kind = "obj" /\ ret.url \notin {NoAttr, None, ""}
SafeWithUrl(ret) == HasUrl(ret) /\ ret.unsafe = "False"
DidRaise(ret) == ret.kind = "raise"
NoUnsafeAttr(ret) == ret.kind = "obj" /\ ret.unsafe = NoAttr

\* the resolution of the first attachment is over
Classified ==
    /\ msg.attaches # <<>>
    /\ \/ pc \in {"download", "send"}
       \/ pc = "return" /\ result \in {"done", "no_chats", "raised"}

\* the first attachment resolved to a URL
ResolvedUrl ==
    LET first == msg.attaches[1] IN
    /\ Classified
    /\ CASE first.cls \in {"PhotoAttach", "AudioAttach"} -> first.ref \notin {None, ""}
         [] first.cls = "VideoAttach" -> Looked("get_video_by_id", HasUrl)
         [] first.cls = "FileAttach" -> Looked("get_file_by_id", SafeWithUrl)
         [] OTHER -> FALSE

\* resolving the first attachment raised an exception
ResolveRaised ==
    \/ Looked("get_video_by_id", DidRaise)
    \/ Looked("get_file_by_id", DidRaise)
    \/ Looked("get_file_by_id", NoUnsafeAttr)

\* C1: a message whose status contains REMOVED causes no Telegram send call
\* (and never reaches a download or a send), whatever its text, its
\* attachments and the registry are.
C1_RemovedNeverSent ==
    msg.status = "REMOVED" => NoSendAtAll /\ pc \notin {"download", "send"}

C1_Witness ==
    /\ result = "removed" /\ msg.status = "REMOVED"
    /\ msg.text = "hi" /\ msg.attaches # <<>>
    /\ ACTIVE_CHATS = ChatIds

\* C2: a message with empty or missing text and no attachment causes no send
\* call, no user lookup and no URL lookup.
C2_EmptyNeverSentNorLooked ==
    (msg # NoMsg /\ msg.text \in {None, ""} /\ msg.attaches = <<>>)
        => NoSendAtAll /\ lookups = {} /\ pc = "return"

C2_Witness ==
    /\ result = "empty" /\ msg.text = "" /\ msg.sender = "7"
    /\ ACTIVE_CHATS # {}

\* C3: when the handler has returned after starting a fan-out, every
\* destination of the snapshot had its iteration, whichever destinations
\* failed and however: with something to send, each had its download or its
\* send attempted, and each one whose download did not fail had one send call.
C3_EveryDestinationAttempted ==
    (pc = "return" /\ snapshot # {}) =>
        \A d \in snapshot :
            /\ outcome[d].stage \in {"send", "download", "nothing"}
            /\ (Truthy(text) \/ ResolvedUrl) => outcome[d].stage \in {"send", "download"}
            /\ outcome[d].stage = "send" => Len(sent[d]) = 1

C3_Witness ==
    /\ pc = "return" /\ snapshot = ChatIds
    /\ \E a, b, c \in ChatIds :
         /\ outcome[a].stage = "download" /\ outcome[a].exc = TimeoutErr
         /\ outcome[b].stage = "send" /\ outcome[b].exc # NoErr
         /\ outcome[c] = Ended("send", NoErr, "no") /\ Len(sent[c]) = 1

\* the iteration of the fan-out for destination d ends in this step: after its
\* download or its send, or with nothing to send (then the loop runs every
\* iteration in the step that begins the fan-out)
IterationEnds(d) == outcome[d] = NoOutcome /\ outcome'[d] # NoOutcome

\* C4: the step that ends the iteration for a destination removes it from the
\* registry and rewrites the state file, before the next destination is
\* attempted, when its send failed with an error whose description contains
\* "not found"; otherwise it leaves the registry as it is.  So, with no command
\* interleaved, the registry after a message is the snapshot minus exactly the
\* destinations whose send failed so.
C4_RegistryIsSnapshotMinusSendNotFound ==
    [][\A d \in ChatIds :
          IterationEnds(d) =>
              IF outcome'[d].stage = "send" /\ DescNotFound(outcome'[d].exc)
              THEN ACTIVE_CHATS' = ACTIVE_CHATS \ {d} /\ outcome'[d].wrote # "no"
              ELSE ACTIVE_CHATS' = ACTIVE_CHATS /\ outcome'[d].wrote = "no"]_vars

\* the same for the iterations that reached their send
C4_SendFailureDecides ==
    [][\A d \in ChatIds :
          (IterationEnds(d) /\ pc = "send") =>
              IF DescNotFound(outcome'[d].exc)
              THEN ACTIVE_CHATS' = ACTIVE_CHATS \ {d} /\ outcome'[d].wrote # "no"
              ELSE ACTIVE_CHATS' = ACTIVE_CHATS /\ outcome'[d].wrote = "no"]_vars

\* C5: start from a chat already in the registry replies "already active" and
\* leaves the registry and the state file alone (no write); from a chat not in
\* it, it adds exactly that id, rewrites the state file and replies
\* "activated"; either way the id is in the registry, once.
C5_StartIdempotent ==
    [][\A c \in ChatIds :
          (reply = NoReply /\ reply'.cmd = "start" /\ reply'.chat = c) =>
              /\ IF c \in ACTIVE_CHATS
                 THEN /\ reply'.text = AlreadyActive
                      /\ ACTIVE_CHATS' = ACTIVE_CHATS
                      /\ reply'.wrote = "no" /\ file' = file
                 ELSE /\ reply'.text = Activated
                      /\ ACTIVE_CHATS' = ACTIVE_CHATS \cup {c}
                      /\ reply'.wrote = "ok"
                      /\ file'.kind = "ok" /\ FileIds(file') = ACTIVE_CHATS'
              /\ Cardinality(ACTIVE_CHATS') = Cardinality(ACTIVE_CHATS \cup {c})]_vars

C5_Witness ==
    /\ reply = Reply("start", "222", AlreadyActive, "no")
    /\ ACTIVE_CHATS = {"111", "222"}
    /\ FileIds(file) = ACTIVE_CHATS

\* C6: stop from a chat not in the registry replies "was not active" and leaves
\* the registry and the state file alone (no write); from a chat in it, it
\* removes exactly that id, rewrites the state file and replies "deactivated".
C6_StopFrame ==
    [][\A c \in ChatIds :
          (reply = NoReply /\ reply'.cmd = "stop" /\ reply'.chat = c) =>
              IF c \notin ACTIVE_CHATS
              THEN /\ reply'.text = WasNotActive
                   /\ ACTIVE_CHATS' = ACTIVE_CHATS
                   /\ reply'.wrote = "no" /\ file' = file
              ELSE /\ reply'.text = Deactivated
                   /\ ACTIVE_CHATS' = ACTIVE_CHATS \ {c}
                   /\ reply'.wrote = "ok"
                   /\ file'.kind = "ok" /\ FileIds(file') = ACTIVE_CHATS']_vars

C6_Witness ==
    /\ reply = Reply("stop", "333", WasNotActive, "no")
    /\ ACTIVE_CHATS = {"111", "222"}
    /\ mutated

\* C7: while no state-file write has failed, at every await reached after the
\* first mutation of the registry (by start, stop or the self-healing removal),
\* the ids of the state file are the registry.
C7_FileIsRegistry ==
    (mutated /\ ~write_failed) =>
        /\ file.kind = "ok"
        /\ FileIds(file) = ACTIVE_CHATS
        /\ Len(file.chats) = Cardinality(ACTIVE_CHATS)

C7_Witness ==
    /\ pc = "send" /\ ~write_failed
    /\ \E d \in snapshot : outcome[d].wrote = "ok" /\ d \notin ACTIVE_CHATS
    /\ reply.cmd = "stop" /\ reply.text = Deactivated
    /\ \E d \in ACTIVE_CHATS : d \notin snapshot

\* C8: when the first attachment is a Photo, Video, Audio or File that resolved
\* to a URL and every download and send succeeded, each destination of the
\* snapshot got exactly one send call: the operation matched to the kind, with
\* a caption that contains the sender name and the text; no other chat got any.
C8_MediaSentOncePerDestination ==
    (/\ pc = "return" /\ result = "done"
     /\ ResolvedUrl
     /\ \A d \in snapshot : outcome[d].exc = NoErr)
        => /\ msg.attaches[1].cls \in MediaClasses
           /\ \A d \in snapshot :
                /\ Len(sent[d]) = 1
                /\ sent[d][1].op = OpFor(msg.attaches[1].cls)
                /\ Contains(sent[d][1].caption, <<sender_name>>)
                /\ msg.text \notin {None, ""} => Contains(sent[d][1].caption, <<msg.text>>)
           /\ \A d \in ChatIds \ snapshot : sent[d] = <<>>

C8_Witness ==
    /\ pc = "return" /\ result = "done" /\ snapshot = ChatIds
    /\ msg.attaches # <<>>
    /\ msg.attaches[1].cls = "VideoAttach" /\ msg.text = "hi"
    /\ sender_name = "Ivan"
    /\ \A d \in ChatIds : outcome[d] = Ended("send", NoErr, "no") /\ Len(sent[d]) = 1

\* C9: when the first attachment yields no URL and nothing raised, no download
\* and no media send is ever made; once the fan-out is over, each destination
\* of the snapshot got exactly one send_message call if the message has text
\* and no call if it has none; the handler does not raise.
C9_SkipSendsTextOnly ==
    (Classified /\ ~ResolvedUrl /\ ~ResolveRaised) =>
        /\ pc # "download" /\ result # "raised"
        /\ \A d \in ChatIds : \A i \in 1..Len(sent[d]) : sent[d][i].op = "send_message"
        /\ (pc = "return" /\ result = "done") =>
              \A d \in snapshot :
                  IF msg.text \notin {None, ""}
                  THEN sent[d] = <<Call("send_message", tg_caption, NoFile)>>
                  ELSE sent[d] = <<>>

C9_Witness ==
    /\ pc = "return" /\ result = "done" /\ snapshot = ChatIds
    /\ msg.attaches # <<>>
    /\ msg.attaches[1].cls = "FileAttach" /\ msg.text = "hi"
    /\ \E l \in lookups : l.call = "get_file_by_id" /\ l.ret.unsafe = "True"
    /\ \A d \in ChatIds : Len(sent[d]) = 1

\* the attachment was skipped and the fan-out, if any, served every destination
SkippedAndFannedOut ==
    /\ result # "raised"
    /\ pc \in {"send", "return"}
    /\ media_url = None
    /\ pc = "return" =>
          /\ result \in {"done", "no_chats"}
          /\ \A d \in snapshot :
                /\ outcome[d].stage \in {"send", "nothing"}
                /\ msg.text \notin {None, ""} =>
                      /\ Len(sent[d]) = 1
                      /\ sent[d][1].op = "send_message"

\* C10: when the video or file lookup (or reading its result) raised, the
\* handler does not raise: the attachment is skipped (no URL, no download), the
\* fan-out runs unless the registry is empty when it begins, and once it is
\* over every destination of the snapshot had its iteration, with one
\* send_message call if the message has text.
C10_ResolverFailureIsolated ==
    /\ [](ResolveRaised => SkippedAndFannedOut)
    /\ [][(ResolveRaised' /\ pc # "return" /\ result' = "no_chats") => ACTIVE_CHATS = {}]_vars

C10_Witness ==
    /\ Looked("get_video_by_id", DidRaise)
    /\ pc = "return" /\ result = "done" /\ snapshot = ChatIds
    /\ msg.text = "hi"
    /\ \A d \in ChatIds : Len(sent[d]) = 1 /\ outcome[d].stage = "send"

-----------------------------------------------------------------------------
(* download_media_from_url                                                 *)

Retried(o) == o.cls \in {"TimeoutError", "ClientError"}

\* the call has ended, and was made with max_retries >= 1
Fetched == dl_ret # NoRet /\ dl_call.max_retries >= 1

\* C11: for max_retries >= 1 the fetch makes at most max_retries GET attempts,
\* exactly max_retries when every attempt fails with a timeout or a transport
\* error; the k-th sleep (k from 0) lasts 2^k seconds and there is one sleep
\* between consecutive attempts and none after the last; the first successful
\* attempt is the last attempt.
C11_RetryBoundAndBackoff ==
    Fetched =>
        LET n == dl_call.max_retries
            outs == dl_call.outs
        IN  /\ dl_ret.attempts \in 1..n
            /\ (\A k \in 1..n : Retried(outs[k])) => dl_ret.attempts = n
            /\ Len(dl_ret.sleeps) = dl_ret.attempts - 1
            /\ \A k \in 1..Len(dl_ret.sleeps) : dl_ret.sleeps[k] = 2 ^ (k - 1)
            /\ \A k \in 1..n :
                 (outs[k] = OkResp /\ \A j \in 1..(k - 1) : Retried(outs[j]))
                    => dl_ret.kind = "return" /\ dl_ret.attempts = k

C11_Witness ==
    /\ dl_call.max_retries = 3
    /\ dl_call.outs[1] = TimeoutErr /\ dl_call.outs[2] = Http404 /\ dl_call.outs[3] = TimeoutErr
    /\ dl_ret.kind = "raise" /\ dl_ret.attempts = 3 /\ dl_ret.sleeps = <<1, 2>>

\* C12: an exception that is neither a timeout nor a transport error, raised
\* on attempt k, ends the fetch: attempt k is the last, no sleep follows it, and
\* that exception is the one raised to the caller.
C12_OtherExceptionAborts ==
    Fetched =>
        \A k \in 1..dl_call.max_retries :
            (/\ dl_call.outs[k] = OtherErr
             /\ \A j \in 1..(k - 1) : Retried(dl_call.outs[j]))
                => /\ dl_ret.kind = "raise"
                   /\ dl_ret.exc = OtherErr
                   /\ dl_ret.attempts = k
                   /\ Len(dl_ret.sleeps) = k - 1

C12_Witness ==
    /\ dl_call.max_retries = 4
    /\ dl_call.outs[1] = TimeoutErr /\ dl_call.outs[2] = OtherErr /\ dl_call.outs[3] = OkResp
    /\ dl_ret.kind = "raise" /\ dl_ret.exc = OtherErr /\ dl_ret.attempts = 2

\* C13: for max_retries >= 0 the fetch either returns the body of a successful
\* attempt, or raises the failure of the last attempt it made; it raises
\* nothing that is not the failure of an attempt.
C13_ReturnsBodyOrRaisesLastFailure ==
    dl_ret # NoRet =>
        /\ dl_ret.kind = "return" =>
              dl_ret.attempts >= 1 /\ dl_call.outs[dl_ret.attempts] = OkResp
        /\ dl_ret.kind = "raise" =>
              /\ dl_ret.attempts >= 1
              /\ dl_ret.exc = dl_call.outs[dl_ret.attempts]
              /\ dl_ret.exc # OkResp

\* the same for the calls with max_retries >= 1
C13_FromOneAttemptOn ==
    Fetched => C13_ReturnsBodyOrRaisesLastFailure

-----------------------------------------------------------------------------
(* Media buffers                                                           *)

\* the dispatcher is done with destination d: its iteration of the loop ended
MovedOn(d) == outcome[d].stage # "-"

OpenBuffers == {d \in ChatIds : buffers[d] = "open"}

\* C14: once the dispatcher has moved on from a destination (to the next one,
\* or to its return), the media buffer downloaded for that destination is
\* closed, whether the send returned or raised.
C14_BufferClosedOnEveryExit ==
    \A d \in ChatIds : MovedOn(d) => buffers[d] # "open"

\* the same for the sends that returned
C14_BufferClosedAfterSuccess ==
    \A d \in ChatIds :
        (MovedOn(d) /\ outcome[d].exc = NoErr) => buffers[d] # "open"

\* C15: the media of one message is downloaded at most once, however many
\* destinations the snapshot has, and at most one media buffer is open at a time.
C15_OneFetchPerMessage ==
    /\ fetches <= 1
    /\ Cardinality(OpenBuffers) <= 1

-----------------------------------------------------------------------------
(* Shutdown                                                                *)

\* max_client.__aexit__ has returned
MaxConnectionClosed == max_client = "closed"

\* updater.stop(), tg_app.stop() and tg_app.shutdown() have returned
TelegramLayerStopped == tg_app = "shut_down"

\* C16: in every shutdown the Telegram command layer is stopped before the Max
\* connection is closed: the Max connection is never closed while the command
\* layer is not yet stopped.
C16_TelegramStoppedBeforeMaxClosed ==
    MaxConnectionClosed => TelegramLayerStopped

-----------------------------------------------------------------------------
(* Sender identification                                                   *)

\* get_user raised, or returned no user, or a user without names
NoUser(ret) == ret.kind \in {"raise", "none"} \/ (ret.kind = "obj" /\ ret.names = <<>>)
GotAnswer(ret) == ret.kind # "pending"

\* What follows the sender lookup, stated without its result: the handler does
\* not raise, it reaches the fan-out, every destination of the snapshot has its
\* iteration, and each send call is of the kind the attachment asks for
\* (send_message when it yields no URL).
ProceedsToFanOut ==
    /\ result # "raised"
    /\ pc \in {"get_video_by_id", "get_file_by_id", "download", "send", "return"}
    /\ pc = "return" =>
          /\ result \in {"done", "no_chats"}
          /\ result = "done" => snapshot # {} /\ \A d \in snapshot : MovedOn(d)
    /\ \A d \in ChatIds : \A i \in 1..Len(sent[d]) :
          /\ d \in snapshot
          /\ sent[d][i].op = IF ResolvedUrl THEN OpFor(msg.attaches[1].cls)
                             ELSE "send_message"

\* C17: when get_user raises or gives no user or no names, the sender name is
\* "ID_<sender id>" and is the name of the caption, and the handler goes on to
\* resolve and fan out as after any answered lookup: no exception leaves it,
\* the same destinations are served with the same kinds of send call.
C17_SenderLookupNeverAborts ==
    /\ [](Looked("get_user", NoUser) =>
            /\ sender_name = "ID_" \o msg.sender
            /\ Contains(tg_caption, <<sender_name>>))
    /\ [](Looked("get_user", GotAnswer) => ProceedsToFanOut)
    /\ [][(pc = "get_user" /\ result' = "no_chats") => ACTIVE_CHATS = {}]_vars

C17_Witness ==
    /\ Looked("get_user", DidRaise)
    /\ sender_name = "ID_7"
    /\ pc = "return" /\ result = "done" /\ snapshot = ChatIds
    /\ msg.attaches # <<>> /\ msg.attaches[1].cls = "PhotoAttach"
    /\ \A d \in ChatIds : Len(sent[d]) = 1 /\ sent[d][1].op = "send_photo"

-----------------------------------------------------------------------------
(* The state file across runs                                              *)

\* C18: when the process starts on the file its last save_state wrote for the
\* registry S, load_state makes the registry S again, in whatever order the
\* ids were added to S or listed in the file.
C18_SaveLoadRoundTrip ==
    [][(main_pc = "boot" /\ main_pc' # "boot" /\ persisted.known)
          => ACTIVE_CHATS' = persisted.ids]_vars

C18_Witness ==
    /\ main_pc = "running" /\ ~mutated
    /\ persisted = Saved({"111", "222"})
    /\ ACTIVE_CHATS = {"111", "222"}
    /\ file = FileOk(<<JStr("222"), JStr("111")>>)

\* C19: at startup, with no state file or with one that cannot be read,
\* load_state leaves the registry empty and raises nothing: main() goes on.
C19_StartupLoadNeverFails ==
    [][(main_pc = "boot" /\ main_pc' # "boot" /\ file.kind \in {"absent", "malformed"})
          => (ACTIVE_CHATS' = {} /\ main_pc' = "tg_initializing")]_vars

C19_Witness ==
    /\ main_pc = "running" /\ ~mutated
    /\ file = FileMalformed
    /\ ACTIVE_CHATS = {}

\* C20: a save_state that fails raises nothing and undoes nothing: the start
\* or stop whose write failed has changed the registry and replies its status;
\* the self-healing removal whose write failed has removed the destination and
\* the loop goes on to the next destination, or ends when there is none.
C20_WriteFailureKeepsMutation ==
    [][/\ (reply' # reply /\ reply'.wrote = "failed") =>
             \/ /\ reply'.cmd = "start" /\ reply'.text = Activated
                /\ reply'.chat \notin ACTIVE_CHATS
                /\ ACTIVE_CHATS' = ACTIVE_CHATS \cup {reply'.chat}
             \/ /\ reply'.cmd = "stop" /\ reply'.text = Deactivated
                /\ reply'.chat \in ACTIVE_CHATS
                /\ ACTIVE_CHATS' = ACTIVE_CHATS \ {reply'.chat}
       /\ \A d \in ChatIds :
             (outcome'[d] # outcome[d] /\ outcome'[d].wrote = "failed") =>
                 /\ d = tg_chat_id
                 /\ ACTIVE_CHATS' = ACTIVE_CHATS \ {d}
                 /\ result' # "raised"
                 /\ IF todo = {}
                    THEN pc' = "return" /\ result' = "done"
                    ELSE /\ pc' = "send" /\ tg_chat_id' \in todo
                         /\ Len(sent'[tg_chat_id']) = Len(sent[tg_chat_id']) + 1]_vars

C20_Witness ==
    /\ write_failed
    /\ reply = Reply("stop", "333", Deactivated, "failed")
    /\ "333" \notin ACTIVE_CHATS
    /\ pc = "send"
    /\ \E d \in snapshot : outcome[d].wrote = "failed" /\ d \notin ACTIVE_CHATS

-----------------------------------------------------------------------------
(* One media item per message                                              *)

MediaOps == {"send_photo", "send_video", "send_audio", "send_document"}

\* the lookups the first attachment of the message asks for
FirstAttachLookups ==
    IF msg.attaches = <<>> THEN {}
    ELSE CASE msg.attaches[1].cls = "VideoAttach" -> {"get_video_by_id"}
           [] msg.attaches[1].cls = "FileAttach" -> {"get_file_by_id"}
           [] OTHER -> {}

\* url is the URL of the first attachment: its own, or the one its lookup gave
UrlOfFirst(url) ==
    /\ ResolvedUrl
    /\ CASE msg.attaches[1].cls \in {"PhotoAttach", "AudioAttach"} -> url = msg.attaches[1].ref
         [] msg.attaches[1].cls = "VideoAttach" ->
              \E l \in lookups : l.call = "get_video_by_id" /\ l.ret.url = url
         [] OTHER -> \E l \in lookups : l.call = "get_file_by_id" /\ l.ret.url = url

\* C21: for a message with any number of attachments, each destination gets at
\* most one send call and only destinations of the snapshot get one; a media
\* send, and the download before it, is for the first attachment (its kind, its
\* URL); the only lookups made are of the sender and of the first attachment,
\* so that the attachments after the first cause no lookup, download or send.
C21_FirstAttachmentOnly ==
    /\ \A d \in ChatIds :
          /\ Len(sent[d]) <= 1
          /\ sent[d] # <<>> => d \in snapshot
          /\ \A i \in 1..Len(sent[d]) :
                sent[d][i].op \in MediaOps =>
                    /\ UrlOfFirst(media_url)
                    /\ sent[d][i].op = OpFor(msg.attaches[1].cls)
    /\ (pc = "download" \/ fetches > 0) => UrlOfFirst(media_url)
    /\ media_url # None => UrlOfFirst(media_url)
    /\ \A l \in lookups : l.call \in {"get_user"} \cup FirstAttachLookups
    /\ Cardinality({l \in lookups : l.call # "get_user"}) <= 1

C21_Witness ==
    /\ pc = "return" /\ result = "done" /\ snapshot = ChatIds
    /\ Len(msg.attaches) = 2
    /\ msg.attaches[1].cls = "VideoAttach" /\ msg.attaches[2].cls = "PhotoAttach"
    /\ media_url = "http://max/video"
    /\ \A d \in ChatIds : Len(sent[d]) = 1 /\ sent[d][1].op = "send_video"

-----------------------------------------------------------------------------
(* Deregistration by the dispatcher                                        *)

\* C22: the dispatcher removes a destination from the registry only in the
\* step in which a send call to it fails with a "not found" description; the
\* step in which the media download for a destination fails leaves the
\* registry as it is, whatever the description of the download's error.
C22_OnlyFailedSendDeregisters ==
    [][\A d \in ChatIds :
          IterationEnds(d) =>
              /\ ACTIVE_CHATS' # ACTIVE_CHATS =>
                    /\ pc = "send" /\ sent[d] # <<>>
                    /\ DescNotFound(outcome'[d].exc)
              /\ pc = "download" => ACTIVE_CHATS' = ACTIVE_CHATS]_vars

-----------------------------------------------------------------------------
(* Commands in the middle of a fan-out                                     *)

\* a send call to c is made in this step
SendStarts(c) == Len(sent'[c]) > Len(sent[c])

\* c is in the snapshot of the running fan-out and not yet served, a stop
\* command has removed it from the registry and has been answered, and no
\* start has added it again
StoppedMidFanOut(c) ==
    /\ c \in snapshot /\ ~MovedOn(c)
    /\ c \notin ACTIVE_CHATS
    /\ ~(reply.cmd = "stop" /\ reply.chat = c)

\* C23 as stated: once a stop from chat c has removed c and has been answered,
\* no send call to c is started unless a start adds c again, also when the
\* stop was handled in the middle of a fan-out whose snapshot contains c.
C23_NoSendAfterStop ==
    [][\A c \in ChatIds : StoppedMidFanOut(c) => ~SendStarts(c)]_vars

\* C23 amended: the sends follow the snapshot. The snapshot of a fan-out is the
\* registry as it is when the fan-out begins, it does not change while the
\* fan-out runs, and a send call is started only to a chat of the snapshot: a
\* stop handled in the middle of a fan-out keeps c out of the fan-outs that
\* begin later, not out of the running one.
C23_SendsFollowSnapshot ==
    [][/\ (snapshot' # snapshot /\ snapshot' # {}) => snapshot' = ACTIVE_CHATS
       /\ pc \in {"download", "send"} => snapshot' = snapshot
       /\ \A c \in ChatIds : SendStarts(c) => c \in snapshot']_vars

C23_Witness ==
    /\ pc = "send" /\ tg_chat_id = "333"
    /\ snapshot = ChatIds
    /\ StoppedMidFanOut("333")
    /\ reply = NoReply
    /\ Len(sent["333"]) = 1
    /\ MovedOn("111") /\ MovedOn("222")

-----------------------------------------------------------------------------
(* Download exhaustion                                                     *)

\* the download for destination d has failed after its retries
DownloadFailed(d) == outcome[d].stage = "download"

\* C24: when the download made for a destination fails after all its retries,
\* that destination gets no send call of any kind for that message, no
\* exception leaves the handler, and the loop goes on: to the download for
\* another destination of the snapshot not yet served, or to its end when
\* every destination was served.  The only send call that follows a download
\* is the media send of the downloaded buffer.
C24_DownloadFailureSkipsDestination ==
    /\ [](\A d \in ChatIds :
            DownloadFailed(d) => /\ sent[d] = <<>>
                                 /\ outcome[d].exc # NoErr
                                 /\ buffers[d] = "none"
                                 /\ result # "raised")
    /\ [][pc = "download" =>
             \A d \in ChatIds :
                 SendStarts(d) => /\ d = tg_chat_id
                                  /\ buffers'[d] = "open"
                                  /\ sent'[d][Len(sent'[d])].op \in MediaOps]_vars
    /\ [][(pc = "download" /\ outcome'[tg_chat_id].stage = "download") =>
             /\ sent' = sent
             /\ IF todo = {}
                THEN /\ pc' = "return" /\ result' = "done"
                     /\ \A d \in snapshot : MovedOn(d)'
                ELSE /\ pc' = "download" /\ tg_chat_id' \in todo
                     /\ todo' = todo \ {tg_chat_id'}]_vars

C24_Witness ==
    /\ pc = "return" /\ result = "done" /\ snapshot = ChatIds
    /\ msg.text = "hi"
    /\ outcome["111"].stage = "download" /\ outcome["111"].exc = TimeoutErr
    /\ sent["111"] = <<>>
    /\ "111" \in ACTIVE_CHATS
    /\ \A d \in {"222", "333"} : outcome[d] = Ended("send", NoErr, "no") /\ Len(sent[d]) = 1
====
